---- MODULE Spec2Model ----
(***************************************************************************)
(* Model of src/sdl3/hint.rs: the hint accessor of the sdl3 crate.        *)
(*                                                                         *)
(* The accessor marshals Rust strings to NUL-terminated buffers, calls    *)
(* the SDL hint entry points, and converts the answers back.  The SDL     *)
(* hint table itself lives outside the crate; it is modelled here from    *)
(* its documented contract: key -> (value, priority), a write replaces    *)
(* an entry iff the entry is absent or the write's priority is >= the     *)
(* entry's.                                                                *)
(*                                                                         *)
(* Strings are sequences of bytes (naturals 0..255).                       *)
(***************************************************************************)
EXTENDS Naturals, Sequences, FiniteSets, TLC

\* Longest caller-supplied value string explored.
MaxLen == 1

\* ------------------------------------------------------------------------
\* Bytes and strings
\* ------------------------------------------------------------------------

\* The byte CString::new refuses and C reads as the end of a string.
NUL == 0

\* The literals "1" and "0" of the boolean hint wrappers.
STR_1 == <<49>>
STR_0 == <<48>>

\* Bytes the explored value strings are built from: NUL and '1'.
ValueBytes == {NUL, 49}

\* names::VIDEO_MINIMIZE_ON_FOCUS_LOSS = "SDL_VIDEO_MINIMIZE_ON_FOCUS_LOSS"
VIDEO_MINIMIZE_ON_FOCUS_LOSS ==
    <<83, 68, 76, 95, 86, 73, 68, 69, 79, 95, 77, 73, 78, 73, 77, 73, 90, 69,
      95, 79, 78, 95, 70, 79, 67, 85, 83, 95, 76, 79, 83, 83>>

\* "APP_X", and "APP_X\0Y": a name with an embedded NUL byte.
APP_X == <<65, 80, 80, 95, 88>>
APP_X_NUL_Y == <<65, 80, 80, 95, 88, 0, 89>>

\* All byte strings over S of length at most n.
RECURSIVE SeqsUpTo(_, _)
SeqsUpTo(S, n) ==
    IF n = 0 THEN {<<>>}
    ELSE LET shorter == SeqsUpTo(S, n - 1)
         IN  shorter \cup {Append(s, b) : s \in {t \in shorter : Len(t) = n - 1}, b \in S}

HasNul(s) == \E i \in 1..Len(s) : s[i] = NUL

\* Index of the first NUL of a buffer that holds one.
FirstNul(buf) == CHOOSE i \in 1..Len(buf) : buf[i] = NUL /\ \A j \in 1..(i - 1) : buf[j] # NUL

\* What C code (and CStr::from_ptr(..).to_bytes()) reads at a pointer to buf:
\* the bytes before the first NUL.
CStr_to_bytes(buf) == SubSeq(buf, 1, FirstNul(buf) - 1)

\* CString_new without the interior-NUL check: the buffer is built anyway
\* and C reads it up to the first NUL.
CString_new_truncating(s) == [ok |-> TRUE, buf |-> Append(s, NUL)]

\* CString::new(s): Err if s has an interior NUL, else s with a NUL appended.
CString_new(s) ==
    IF HasNul(s) THEN [ok |-> FALSE]
    ELSE [ok |-> TRUE, buf |-> Append(s, NUL)]

\* A continuation byte of a UTF-8 sequence.
IsCont(b) == b >= 128 /\ b <= 191

\* str::from_utf8's validity test.
RECURSIVE Utf8Valid(_)
Utf8Valid(s) ==
    IF Len(s) = 0 THEN TRUE
    ELSE LET b == s[1]
             n == Len(s)
         IN  IF b < 128 THEN Utf8Valid(Tail(s))
             ELSE IF b >= 194 /\ b <= 223
                  THEN n >= 2 /\ IsCont(s[2]) /\ Utf8Valid(SubSeq(s, 3, n))
             ELSE IF b >= 224 /\ b <= 239
                  THEN /\ n >= 3
                       /\ IsCont(s[2]) /\ IsCont(s[3])
                       /\ (b = 224 => s[2] >= 160)
                       /\ (b = 237 => s[2] <= 159)
                       /\ Utf8Valid(SubSeq(s, 4, n))
             ELSE IF b >= 240 /\ b <= 244
                  THEN /\ n >= 4
                       /\ IsCont(s[2]) /\ IsCont(s[3]) /\ IsCont(s[4])
                       /\ (b = 240 => s[2] >= 144)
                       /\ (b = 244 => s[2] <= 143)
                       /\ Utf8Valid(SubSeq(s, 5, n))
             ELSE FALSE

\* str::from_utf8(bytes): Err on invalid UTF-8, else the same bytes as a str.
from_utf8(bytes) ==
    IF Utf8Valid(bytes) THEN [ok |-> TRUE, str |-> bytes] ELSE [ok |-> FALSE]

\* ------------------------------------------------------------------------
\* Inputs
\* ------------------------------------------------------------------------

\* enum Hint
Hint == {"Default", "Normal", "Override"}

\* Rust &str arguments: valid UTF-8, possibly with NUL bytes.
Names == {VIDEO_MINIMIZE_ON_FOCUS_LOSS, APP_X, APP_X_NUL_Y}
Values == {s \in SeqsUpTo(ValueBytes, MaxLen) : Utf8Valid(s)}

\* The slots of the hint table the explored names address.
HintNames == {CStr_to_bytes(Append(n, NUL)) : n \in Names}

\* C strings another writer of the process may store.
CValues == {s \in Values : ~HasNul(s)} \cup {STR_0}

\* ------------------------------------------------------------------------
\* State
\* ------------------------------------------------------------------------

VARIABLES
    hints,    \* the process-wide SDL hint table: name -> entry
    result,   \* the last call made through this module: arguments and outcome
    actor,    \* who took the last step: this module, or another writer
    prev      \* the call before the last one, kept when the last call is a get
              \* that follows a get of the same name, or a set that directly
              \* follows a set_with_priority of the same name at Override

vars == <<hints, result, actor, prev>>

\* SDL_HintPriority, as the SDL headers number it.
SDL_HINT_DEFAULT == 0
SDL_HINT_NORMAL == 1
SDL_HINT_OVERRIDE == 2

\* An absent slot, and a slot holding value at priority.
NoHint == [present |-> FALSE]
HintEntry(value, priority) == [present |-> TRUE, value |-> value, priority |-> priority]

\* Option<String>
None == [some |-> FALSE]
Some(s) == [some |-> TRUE, val |-> s]

\* A null pointer, and a pointer to a NUL-terminated buffer.
NullPtr == [null |-> TRUE]
PtrTo(buf) == [null |-> FALSE, buf |-> buf]

\* CString::as_ptr
as_ptr(cstring) == PtrTo(cstring.buf)

\* ------------------------------------------------------------------------
\* The SDL hint table (external to the crate)
\* ------------------------------------------------------------------------

\* SDL_SetHintWithPriority(name, value, priority) on the table h: replaces the entry iff it
\* is absent or priority >= its priority; answers whether it did.
SDL_SetHintWithPriority(h, name, value, priority) ==
    LET key == CStr_to_bytes(name.buf)
        cur == h[key]
    IN  IF ~cur.present \/ priority >= cur.priority
        THEN [ret |-> TRUE,
              hints |-> [h EXCEPT ![key] = HintEntry(CStr_to_bytes(value.buf), priority)]]
        ELSE [ret |-> FALSE, hints |-> h]

\* SDL_SetHint(name, value) on the table h: the write at normal priority.
SDL_SetHint(h, name, value) == SDL_SetHintWithPriority(h, name, value, SDL_HINT_NORMAL)

\* SDL_GetHint(name) on the table h: NULL for an absent slot, else a pointer to its value.
SDL_GetHint(h, name) ==
    LET cur == h[CStr_to_bytes(name.buf)]
    IN  IF cur.present
        THEN [ptr |-> PtrTo(Append(cur.value, NUL)), hints |-> h]
        ELSE [ptr |-> NullPtr, hints |-> h]

\* ------------------------------------------------------------------------
\* The accessor (src/sdl3/hint.rs)
\*
\* Every function takes the table h it is called on as its first parameter
\* (in the source the table is the process-wide state behind the SDL entry
\* points) and answers an outcome: what it returned or that it panicked,
\* the table it left, and the SDL entry points it called.
\* ------------------------------------------------------------------------

\* A call that returned ret, leaving the table as h, after the FFI calls ffi.
Returned(ret, h, ffi) == [kind |-> "return", ret |-> ret, hints |-> h, ffi |-> ffi]

\* A call that panicked (an unwrap on Err) after the FFI calls ffi.
Panicked(h, ffi) == [kind |-> "panic", hints |-> h, ffi |-> ffi]

\* priority_val with the arms numbered in the order the match lists them.
priority_val_by_position(priority) ==
    CASE priority = "Normal" -> SDL_HINT_DEFAULT
      [] priority = "Override" -> SDL_HINT_NORMAL
      [] priority = "Default" -> SDL_HINT_OVERRIDE

\* priority_val with Default raised to Normal.
priority_val_upgraded(priority) ==
    CASE priority = "Normal" -> SDL_HINT_NORMAL
      [] priority = "Override" -> SDL_HINT_OVERRIDE
      [] priority = "Default" -> SDL_HINT_NORMAL

\* The match of set_with_priority: Hint -> SDL_HintPriority.
priority_val(priority) ==
    CASE priority = "Normal" -> SDL_HINT_NORMAL
      [] priority = "Override" -> SDL_HINT_OVERRIDE
      [] priority = "Default" -> SDL_HINT_DEFAULT

\* set that drops SDL_SetHint's answer and reports success.
set_ret_ignored(h, name, value) ==
    LET n == CString_new(name)
        v == CString_new(value)
    IN  IF ~n.ok \/ ~v.ok THEN Panicked(h, <<>>)
        ELSE LET r == SDL_SetHint(h, as_ptr(n), as_ptr(v))
             IN  Returned(TRUE, r.hints, <<"SDL_SetHint">>)

\* set that writes at override priority.
set_as_override(h, name, value) ==
    LET n == CString_new(name)
        v == CString_new(value)
    IN  IF ~n.ok \/ ~v.ok THEN Panicked(h, <<>>)
        ELSE LET r == SDL_SetHintWithPriority(h, as_ptr(n), as_ptr(v), SDL_HINT_OVERRIDE)
             IN  Returned(r.ret, r.hints, <<"SDL_SetHintWithPriority">>)

\* pub fn set(name: &str, value: &str) -> bool
set(h, name, value) ==
    LET n == CString_new(name)
        v == CString_new(value)
    IN  IF ~n.ok \/ ~v.ok THEN Panicked(h, <<>>)
        ELSE LET r == SDL_SetHint(h, as_ptr(n), as_ptr(v))
             IN  Returned(r.ret, r.hints, <<"SDL_SetHint">>)

\* pub fn set_with_priority(name: &str, value: &str, priority: &Hint) -> bool
set_with_priority(h, name, value, priority) ==
    LET n == CString_new(name)
        v == CString_new(value)
    IN  IF ~n.ok \/ ~v.ok THEN Panicked(h, <<>>)
        ELSE LET r == SDL_SetHintWithPriority(h, as_ptr(n), as_ptr(v), priority_val(priority))
             IN  Returned(r.ret, r.hints, <<"SDL_SetHintWithPriority">>)

\* get that takes an empty C string for an absent hint.
get_empty_as_none(h, name) ==
    LET n == CString_new(name)
    IN  IF ~n.ok THEN Panicked(h, <<>>)
        ELSE LET r == SDL_GetHint(h, as_ptr(n))
             IN  IF r.ptr.null \/ r.ptr.buf[1] = NUL
                 THEN Returned(None, r.hints, <<"SDL_GetHint">>)
                 ELSE LET s == from_utf8(CStr_to_bytes(r.ptr.buf))
                      IN  IF ~s.ok THEN Panicked(r.hints, <<"SDL_GetHint">>)
                          ELSE Returned(Some(s.str), r.hints, <<"SDL_GetHint">>)

\* get that stores an empty value for a hint it finds absent.
get_creates_entry(h, name) ==
    LET n == CString_new(name)
    IN  IF ~n.ok THEN Panicked(h, <<>>)
        ELSE LET r == SDL_GetHint(h, as_ptr(n))
             IN  IF r.ptr.null
                 THEN Returned(None,
                               SDL_SetHint(r.hints, as_ptr(n), PtrTo(<<NUL>>)).hints,
                               <<"SDL_GetHint", "SDL_SetHint">>)
                 ELSE LET s == from_utf8(CStr_to_bytes(r.ptr.buf))
                      IN  IF ~s.ok THEN Panicked(r.hints, <<"SDL_GetHint">>)
                          ELSE Returned(Some(s.str), r.hints, <<"SDL_GetHint">>)

\* get that answers from the last get of the same name instead of asking SDL.
get_cached(h, name) ==
    LET n == CString_new(name)
    IN  IF ~n.ok THEN Panicked(h, <<>>)
        ELSE IF result.op = "get" /\ result.kind = "return" /\ result.args = <<name>>
        THEN Returned(result.ret[1], h, <<>>)
        ELSE LET r == SDL_GetHint(h, as_ptr(n))
             IN  IF r.ptr.null THEN Returned(None, r.hints, <<"SDL_GetHint">>)
                 ELSE LET s == from_utf8(CStr_to_bytes(r.ptr.buf))
                      IN  IF ~s.ok THEN Panicked(r.hints, <<"SDL_GetHint">>)
                          ELSE Returned(Some(s.str), r.hints, <<"SDL_GetHint">>)

\* pub fn get(name: &str) -> Option<String>
get(h, name) ==
    LET n == CString_new(name)
    IN  IF ~n.ok THEN Panicked(h, <<>>)
        ELSE LET r == SDL_GetHint(h, as_ptr(n))
             IN  IF r.ptr.null THEN Returned(None, r.hints, <<"SDL_GetHint">>)
                 ELSE LET s == from_utf8(CStr_to_bytes(r.ptr.buf))
                      IN  IF ~s.ok THEN Panicked(r.hints, <<"SDL_GetHint">>)
                          ELSE Returned(Some(s.str), r.hints, <<"SDL_GetHint">>)

\* bool_str with the two literals exchanged.
bool_str_swapped(value) == IF value THEN STR_0 ELSE STR_1

\* The wrappers' translation of a bool: "1" for true, "0" for false.
bool_str(value) == IF value THEN STR_1 ELSE STR_0

\* pub fn set_video_minimize_on_focus_loss(value: bool) -> bool
set_video_minimize_on_focus_loss(h, value) ==
    set(h, VIDEO_MINIMIZE_ON_FOCUS_LOSS, bool_str(value))

\* pub fn set_video_minimize_on_focus_loss_with_priority(value: bool, priority: &Hint) -> bool
set_video_minimize_on_focus_loss_with_priority(h, value, priority) ==
    set_with_priority(h, VIDEO_MINIMIZE_ON_FOCUS_LOSS, bool_str(value), priority)

\* The getter testing for anything but "0" instead of for "1".
get_video_not_zero(h) ==
    LET g == get(h, VIDEO_MINIMIZE_ON_FOCUS_LOSS)
    IN  IF g.kind = "panic" THEN g
        ELSE IF ~g.ret.some THEN Returned(TRUE, g.hints, g.ffi)
        ELSE Returned(g.ret.val # STR_0, g.hints, g.ffi)

\* pub fn get_video_minimize_on_focus_loss() -> bool
get_video_minimize_on_focus_loss(h) ==
    LET g == get(h, VIDEO_MINIMIZE_ON_FOCUS_LOSS)
    IN  IF g.kind = "panic" THEN g
        ELSE IF ~g.ret.some THEN Returned(TRUE, g.hints, g.ffi)
        ELSE Returned(g.ret.val = STR_1, g.hints, g.ffi)

\* ------------------------------------------------------------------------
\* Steps
\* ------------------------------------------------------------------------

\* The record of a call: its arguments and what came back (the table aside).
Call(op, args, out) ==
    [op |-> op, args |-> args, kind |-> out.kind,
     ret |-> IF out.kind = "return" THEN <<out.ret>> ELSE <<>>,
     ffi |-> out.ffi]

NoCall == [op |-> "none", args |-> <<>>, kind |-> "return", ret |-> <<>>, ffi |-> <<>>]
NoPrev == [kept |-> FALSE]

\* The history kept when the call op(args) is made in the current state.
Keep(op, args) ==
    IF /\ result.kind = "return"
       /\ \/ op = "get" /\ result.op = "get"
          \/ /\ op = "set" /\ actor = "module"
             /\ result.op = "set_with_priority" /\ result.args[3] = "Override"
       /\ result.args[1] = args[1]
    THEN [kept |-> TRUE, call |-> result, written |-> actor = "other"]
    ELSE NoPrev

Init ==
    /\ hints = [k \in HintNames |-> NoHint]
    /\ result = NoCall
    /\ actor = "module"
    /\ prev = NoPrev

\* A call op(args) of this module, with outcome out.
Apply(op, args, out) ==
    /\ hints' = out.hints
    /\ result' = Call(op, args, out)
    /\ actor' = "module"
    /\ prev' = Keep(op, args)

Set ==
    \E name \in Names, value \in Values :
        Apply("set", <<name, value>>, set(hints, name, value))

SetWithPriority ==
    \E name \in Names, value \in Values, priority \in Hint :
        Apply("set_with_priority", <<name, value, priority>>,
              set_with_priority(hints, name, value, priority))

Get ==
    \E name \in Names :
        Apply("get", <<name>>, get(hints, name))

SetVideo ==
    \E value \in BOOLEAN :
        Apply("set_video_minimize_on_focus_loss", <<value>>,
              set_video_minimize_on_focus_loss(hints, value))

SetVideoWithPriority ==
    \E value \in BOOLEAN, priority \in Hint :
        Apply("set_video_minimize_on_focus_loss_with_priority", <<value, priority>>,
              set_video_minimize_on_focus_loss_with_priority(hints, value, priority))

GetVideo ==
    Apply("get_video_minimize_on_focus_loss", <<>>,
          get_video_minimize_on_focus_loss(hints))

\* Another writer of the process stores a C string in the table directly.
OtherWriter ==
    \E key \in HintNames, value \in CValues,
       priority \in {SDL_HINT_DEFAULT, SDL_HINT_NORMAL, SDL_HINT_OVERRIDE} :
        /\ hints' = SDL_SetHintWithPriority(hints, PtrTo(Append(key, NUL)),
                                            PtrTo(Append(value, NUL)), priority).hints
        /\ actor' = "other"
        /\ UNCHANGED <<result, prev>>

Next ==
    \/ Set
    \/ SetWithPriority
    \/ Get
    \/ SetVideo
    \/ SetVideoWithPriority
    \/ GetVideo
    \/ OtherWriter

Spec == Init /\ [][Next]_vars

\* ------------------------------------------------------------------------
\* Properties
\* ------------------------------------------------------------------------

\* The step just taken is the call op of this module.
Called(op) == actor' = "module" /\ result'.op = op

\* The last step was the call op of this module: the table is as it left it.
Last(op) == actor = "module" /\ result.op = op

\* What a read of slot k must give: None for an absent slot, else its value.
Stored(k) == IF hints[k].present THEN Some(hints[k].value) ELSE None

\* The outcome of get(k) in the current state.
GetNow(k) == get(hints, k)

\* The outcome of get_video_minimize_on_focus_loss() in the current state.
GetVideoNow == get_video_minimize_on_focus_loss(hints)

\* The order Default < Normal < Override.
Rank(p) == CASE p = "Default" -> 0 [] p = "Normal" -> 1 [] p = "Override" -> 2

\* C1: set(k, v) with k and v free of NUL: if the slot is absent or holds
\* nothing above Normal, it returns true and the get(k) that follows returns
\* Some(v); if the slot holds an Override value, it returns false and the
\* get(k) that follows returns the value stored before.
C1_SetThenGet ==
    [][ \A k \in Names, v \in Values :
          (Called("set") /\ result'.args = <<k, v>> /\ ~HasNul(k) /\ ~HasNul(v)) =>
            LET cur == hints[k]
                g == get(hints', k)
            IN  /\ result'.kind = "return"
                /\ g.kind = "return"
                /\ IF ~cur.present \/ cur.priority <= SDL_HINT_NORMAL
                   THEN result'.ret = <<TRUE>> /\ g.ret = Some(v)
                   ELSE result'.ret = <<FALSE>> /\ g.ret = Some(cur.value) ]_vars

\* C1 witness: a set was rejected by an Override value, which get still returns.
C1_Witness ==
    /\ Last("set") /\ result.kind = "return" /\ result.ret = <<FALSE>>
    /\ LET k == result.args[1]
       IN  /\ hints[k].present /\ hints[k].priority = SDL_HINT_OVERRIDE
           /\ hints[k].value # result.args[2]
           /\ GetNow(k).ret = Some(hints[k].value)

\* C2: set_with_priority(k, v, Override) returns true whatever the slot held,
\* and a set(k, v2) made right after it returns false and leaves get(k) = Some(v).
C2_OverrideWins ==
    /\ (Last("set_with_priority") /\ result.args[3] = "Override"
          /\ ~HasNul(result.args[1]) /\ ~HasNul(result.args[2]))
       => /\ result.kind = "return" /\ result.ret = <<TRUE>>
          /\ GetNow(result.args[1]).ret = Some(result.args[2])
    /\ (Last("set") /\ prev.kept /\ ~HasNul(result.args[2]))
       => /\ result.kind = "return" /\ result.ret = <<FALSE>>
          /\ GetNow(result.args[1]).kind = "return"
          /\ GetNow(result.args[1]).ret = Some(prev.call.args[2])

\* C2 witness: a set of another value, made right after an Override write
\* through this module, was rejected.
C2_Witness ==
    /\ Last("set") /\ prev.kept
    /\ prev.call.op = "set_with_priority" /\ prev.call.args[3] = "Override"
    /\ result.kind = "return" /\ result.ret = <<FALSE>>
    /\ result.args[2] # prev.call.args[2]
    /\ hints[result.args[1]].value = prev.call.args[2]

\* C3 as stated: in the initial state get_video_minimize_on_focus_loss() is
\* true, and after any set_video_minimize_on_focus_loss(b) it returns b.
C3_Original ==
    /\ (result.op = "none" /\ actor = "module") => GetVideoNow.ret = TRUE
    /\ Last("set_video_minimize_on_focus_loss") => GetVideoNow.ret = result.args[1]

\* C3 amended: get_video_minimize_on_focus_loss() is true while the slot is
\* absent; a set_video_minimize_on_focus_loss(b) that returns true makes it
\* return b; one that returns false (the slot holds an Override value) leaves
\* what it returns unchanged.
C3_RoundTrip ==
    /\ [](~hints[VIDEO_MINIMIZE_ON_FOCUS_LOSS].present => GetVideoNow.ret = TRUE)
    /\ [][ Called("set_video_minimize_on_focus_loss") =>
             LET cur == hints[VIDEO_MINIMIZE_ON_FOCUS_LOSS]
             IN  /\ result'.kind = "return"
                 /\ IF result'.ret = <<TRUE>>
                    THEN /\ get_video_minimize_on_focus_loss(hints').ret = result'.args[1]
                         /\ ~cur.present \/ cur.priority <= SDL_HINT_NORMAL
                    ELSE /\ get_video_minimize_on_focus_loss(hints').ret = GetVideoNow.ret
                         /\ cur.present /\ cur.priority = SDL_HINT_OVERRIDE ]_vars

\* C3 witness: set_video_minimize_on_focus_loss(false) was rejected and the
\* getter still answers true.
C3_Witness ==
    /\ Last("set_video_minimize_on_focus_loss")
    /\ result.args = <<FALSE>> /\ result.ret = <<FALSE>>
    /\ GetVideoNow.ret = TRUE

\* C4: a write at priority P replaces the slot iff the slot is absent or P is
\* at least its priority (Default < Normal < Override); a write that does not
\* returns false without an error and changes nothing; a write that does
\* records the value at exactly P; no write touches another slot.
C4_PriorityRule ==
    [][ (/\ Called("set") \/ Called("set_with_priority")
         /\ ~HasNul(result'.args[1]) /\ ~HasNul(result'.args[2])) =>
          LET k == result'.args[1]
              v == result'.args[2]
              P == IF result'.op = "set" THEN "Normal" ELSE result'.args[3]
              cur == hints[k]
          IN  /\ result'.kind = "return"
              /\ \A j \in HintNames \ {k} : hints'[j] = hints[j]
              /\ IF ~cur.present \/ Rank(P) >= cur.priority
                 THEN /\ result'.ret = <<TRUE>>
                      /\ hints'[k] = HintEntry(v, Rank(P))
                 ELSE /\ result'.ret = <<FALSE>>
                      /\ hints' = hints ]_vars

\* C4 witness: a Default write was rejected by a slot held at Normal.
C4_Witness ==
    /\ Last("set_with_priority") /\ result.args[3] = "Default"
    /\ result.kind = "return" /\ result.ret = <<FALSE>>
    /\ hints[result.args[1]].priority = SDL_HINT_NORMAL
    /\ hints[result.args[1]].value # result.args[2]

\* C5: get(k) returns None exactly when slot k is absent and Some(its value)
\* otherwise, the empty string included; it never panics on a NUL-free name.
C5_NoneIffUnset ==
    /\ \A k \in HintNames :
         LET g == GetNow(k)
         IN  /\ g.kind = "return"
             /\ (g.ret = None) <=> ~hints[k].present
             /\ hints[k].present => g.ret = Some(hints[k].value)
    /\ (Last("get") /\ ~HasNul(result.args[1]))
       => result.kind = "return" /\ result.ret = <<Stored(result.args[1])>>

\* C5 witness: a get of a slot holding the empty string returned Some("").
C5_Witness ==
    /\ Last("get") /\ result.ret = <<Some(<<>>)>>
    /\ \E k \in HintNames : ~hints[k].present /\ GetNow(k).ret = None

\* C6: get_video_minimize_on_focus_loss() is true for an absent slot, and for
\* a present one exactly when the stored string is "1".
C6_OnlyOneIsTrue ==
    LET cur == hints[VIDEO_MINIMIZE_ON_FOCUS_LOSS]
        want == IF cur.present THEN cur.value = STR_1 ELSE TRUE
    IN  /\ GetVideoNow.kind = "return" /\ GetVideoNow.ret = want
        /\ Last("get_video_minimize_on_focus_loss")
           => result.kind = "return" /\ result.ret = <<want>>

\* C6 witness: the getter answered false for a stored empty string.
C6_Witness ==
    /\ Last("get_video_minimize_on_focus_loss") /\ result.ret = <<FALSE>>
    /\ hints[VIDEO_MINIMIZE_ON_FOCUS_LOSS].present
    /\ hints[VIDEO_MINIMIZE_ON_FOCUS_LOSS].value = <<>>

\* Two outcomes agree in what is returned (or the panic) and in the table.
SameOutcome(a, b) ==
    /\ a.kind = b.kind
    /\ a.hints = b.hints
    /\ a.kind = "return" => a.ret = b.ret

\* C7: from every state, set(k, v) and set_with_priority(k, v, Normal) give
\* the same result and the same table, and so do
\* set_video_minimize_on_focus_loss(b) and its _with_priority(b, Normal) form,
\* which store "1" for true and "0" for false when accepted.
C7_SetIsNormal ==
    /\ \A name \in Names, value \in Values :
         SameOutcome(set(hints, name, value),
                     set_with_priority(hints, name, value, "Normal"))
    /\ \A b \in BOOLEAN :
         LET a == set_video_minimize_on_focus_loss(hints, b)
             w == set_video_minimize_on_focus_loss_with_priority(hints, b, "Normal")
         IN  /\ SameOutcome(a, w)
             /\ a.kind = "return"
             /\ a.ret => a.hints[VIDEO_MINIMIZE_ON_FOCUS_LOSS].value
                            = (IF b THEN <<49>> ELSE <<48>>)
             /\ w.ret => w.hints[VIDEO_MINIMIZE_ON_FOCUS_LOSS].value
                            = (IF b THEN <<49>> ELSE <<48>>)

\* C7 witness: set_video_minimize_on_focus_loss(false) stored "0", and a set
\* on the other slot would be rejected, as the Normal write would be.
C7_Witness ==
    /\ Last("set_video_minimize_on_focus_loss") /\ result.ret = <<TRUE>>
    /\ hints[VIDEO_MINIMIZE_ON_FOCUS_LOSS].value = <<48>>
    /\ hints[APP_X].present /\ hints[APP_X].priority = SDL_HINT_OVERRIDE
    /\ ~set(hints, APP_X, <<>>).ret
    /\ ~set_with_priority(hints, APP_X, <<>>, "Normal").ret

\* C8: a NUL byte in the name given to set, set_with_priority or get, or in
\* the value given to set or set_with_priority, makes the call panic: no
\* value is returned, no SDL entry point is called, the table is unchanged.
C8_NulIsFatal ==
    [][ (/\ actor' = "module"
         /\ result'.op \in {"set", "set_with_priority", "get"}
         /\ \/ HasNul(result'.args[1])
            \/ result'.op # "get" /\ HasNul(result'.args[2])) =>
          /\ result'.kind = "panic"
          /\ result'.ret = <<>>
          /\ result'.ffi = <<>>
          /\ hints' = hints ]_vars

\* C8 witness: a set with a NUL-free name and a value holding a NUL panicked.
C8_Witness ==
    /\ Last("set") /\ result.kind = "panic"
    /\ ~HasNul(result.args[1]) /\ HasNul(result.args[2])
    /\ \E k \in HintNames : hints[k].present

\* C9: get and get_video_minimize_on_focus_loss leave every slot, absent
\* ones included, as it was.
C9_ReadsDoNotWrite ==
    [][ (Called("get") \/ Called("get_video_minimize_on_focus_loss"))
          => hints' = hints ]_vars

\* C9 witness: a get of an absent slot returned None and the slot is absent.
C9_Witness ==
    /\ Last("get") /\ result.ret = <<None>>
    /\ ~hints[result.args[1]].present
    /\ \E k \in HintNames : hints[k].present

\* C10: a get(k) that follows an earlier get(k), with or without a write by
\* another writer in between, returns what the table holds at k now.
C10_NoCache ==
    (Last("get") /\ prev.kept)
    => result.kind = "return" /\ result.ret = <<Stored(result.args[1])>>

\* C10 witness: another writer changed k between two get(k) calls and the
\* second returned a value different from the first.
C10_Witness ==
    /\ Last("get") /\ prev.kept /\ prev.written
    /\ prev.call.ret # result.ret
    /\ prev.call.ret # <<None>>

====
